---- MODULE Spec2Model ----
(***************************************************************************)
(* The department router (app/routers/DepartmentRouter.py): its handlers   *)
(* over the department, employee and benefit collections.                  *)
(*                                                                         *)
(* Strings are sequences of one-character strings, so that parsing an      *)
(* identifier (ObjectId) and printing it back (str) are computed, and a    *)
(* raw string and the canonical form of the identifier it parses to can    *)
(* differ.  Documents are functions from keys to values: a key the         *)
(* document does not hold is not in its domain.                            *)
(***************************************************************************)
EXTENDS Integers, Sequences, FiniteSets, TLC

VARIABLES department_collection, employee_collection, benefit_collection,
          nextOid, request, response, tasks

vars == <<department_collection, employee_collection, benefit_collection,
          nextOid, request, response, tasks>>

(***************************************************************************)
(* Bounds.                                                                 *)
(***************************************************************************)
\* Departments ever inserted (identifiers ever generated).
MaxDeps == 2
\* Largest skip and limit a list request carries.
MaxPage == 2

(***************************************************************************)
(* bson.ObjectId: 12 bytes, written as 24 hexadecimal characters.          *)
(***************************************************************************)
OidLen == 24

HexLower == <<"0","1","2","3","4","5","6","7","8","9","a","b","c","d","e","f">>
HexUpper == <<"0","1","2","3","4","5","6","7","8","9","A","B","C","D","E","F">>

HexChars == {HexLower[i] : i \in 1..16} \cup {HexUpper[i] : i \in 1..16}

\* The value of each hexadecimal character, either case.
HexValues == [c \in HexChars |-> (CHOOSE i \in 1..16 : HexLower[i] = c \/ HexUpper[i] = c) - 1]

IsHex(c) == c \in HexChars

HexVal(c) == HexValues[c]

\* ObjectId.is_valid for a str: 24 characters, all hexadecimal.
IsValidOid(s) == Len(s) = OidLen /\ \A i \in 1..Len(s) : IsHex(s[i])

\* ObjectId(s) for a valid s: bytes.fromhex(s).
ObjectId(s) ==
    [i \in 1..(OidLen \div 2) |-> 16 * HexVal(s[2*i - 1]) + HexVal(s[2*i])]

\* str(oid): binascii.hexlify, lower case.
Str(oid) ==
    [i \in 1..(2 * Len(oid)) |->
        IF i % 2 = 1 THEN HexLower[(oid[(i + 1) \div 2] \div 16) + 1]
                     ELSE HexLower[(oid[i \div 2] % 16) + 1]]

\* Python None, kept among the strings so that equality with any string is
\* defined; "None" is not a character, so it equals no string.
None == <<"None">>

\* The k-th identifier insert_one generates for the department collection.
GenOid(k) == [i \in 1..(OidLen \div 2) |-> IF i = OidLen \div 2 THEN k ELSE 171]

ToUpper(s) == [i \in 1..Len(s) |-> IF IsHex(s[i]) THEN HexUpper[HexVal(s[i]) + 1] ELSE s[i]]

(***************************************************************************)
(* Inputs.                                                                 *)
(***************************************************************************)
IdLower(k) == Str(GenOid(k))
IdUpper(k) == ToUpper(IdLower(k))
\* 23 hexadecimal characters: one short.
BadShort == [i \in 1..(OidLen - 1) |-> "a"]
\* 24 characters, the last not hexadecimal.
BadChar == [i \in 1..OidLen |-> IF i = OidLen THEN "g" ELSE "a"]

RequestIds == {IdLower(k) : k \in 1..MaxDeps} \cup {IdUpper(1), BadShort, BadChar}

FieldNames == {"name", "location", "manager_id", "employee_ids"}

HR == <<"H","R">>
RJ == <<"R","J">>
SP == <<"S","P">>
M1 == <<"m","1">>
E1 == <<"e","1">>

Empty == [f \in {} |-> None]

\* Bodies of POST /departments/: the fields the caller set.
CreateInputs ==
    { Empty,
      [name |-> HR],
      [name |-> HR, location |-> RJ, manager_id |-> M1, employee_ids |-> <<E1>>] }

\* Bodies of PUT /departments/{id}.
UpdateInputs ==
    { Empty,
      [location |-> SP] }

(***************************************************************************)
(* The store: a collection is the sequence of its documents in natural     *)
(* order.                                                                  *)
(***************************************************************************)
Get(doc, key, default) == IF key \in DOMAIN doc THEN doc[key] ELSE default

insert_one(coll, oid, doc) == Append(coll, ("_id" :> oid) @@ doc)

\* find_one({"_id": oid}): the documents found, none or one.
find_one(coll, oid) ==
    LET Test(d) == d["_id"] = oid
        found == SelectSeq(coll, Test)
    IN IF Len(found) = 0 THEN <<>> ELSE <<found[1]>>

\* update_one({"_id": oid}, {"$set": update})
update_one(coll, oid, update) ==
    LET hits == {i \in 1..Len(coll) : coll[i]["_id"] = oid}
        first == IF hits = {} THEN 0 ELSE CHOOSE i \in hits : \A j \in hits : i <= j
    IN [matched_count |-> IF hits = {} THEN 0 ELSE 1,
        coll |-> [i \in 1..Len(coll) |-> IF i = first THEN update @@ coll[i] ELSE coll[i]]]

\* update_many({"department_id": value}, {"$set": {"department_id": None}})
update_many(coll, value) ==
    LET Hit(d) == "department_id" \in DOMAIN d /\ d["department_id"] = value
        hits == {i \in 1..Len(coll) : Hit(coll[i])}
    IN [modified_count |-> Cardinality({i \in hits : coll[i]["department_id"] # None}),
        coll |-> [i \in 1..Len(coll) |->
                    IF i \in hits THEN ("department_id" :> None) @@ coll[i] ELSE coll[i]]]

\* delete_one({"_id": oid})
delete_one(coll, oid) ==
    LET hits == {i \in 1..Len(coll) : coll[i]["_id"] = oid}
        first == IF hits = {} THEN 0 ELSE CHOOSE i \in hits : \A j \in hits : i <= j
        Keep(i) == i # first
    IN [deleted_count |-> IF hits = {} THEN 0 ELSE 1,
        coll |-> IF hits = {} THEN coll
                 ELSE SubSeq(coll, 1, first - 1) \o SubSeq(coll, first + 1, Len(coll))]

count_documents(coll) == Len(coll)

\* cursor.skip(n)
Skip(docs, n) == SubSeq(docs, n + 1, Len(docs))

\* cursor.limit(n): a limit of 0 is no limit.
Limit(docs, n) == IF n = 0 THEN docs ELSE SubSeq(docs, 1, IF n < Len(docs) THEN n ELSE Len(docs))

\* to_list(length=None) in place of to_list(length=limit).
to_list_no_length(docs, n) == docs

\* cursor.to_list(length=n): at most n documents.
to_list(docs, n) == SubSeq(docs, 1, IF n < Len(docs) THEN n ELSE Len(docs))

\* doc["_id"] = str(doc["_id"])
WithStrId(doc) == ("_id" :> Str(doc["_id"])) @@ doc

StrIds(docs) == [i \in 1..Len(docs) |-> WithStrId(docs[i])]

(***************************************************************************)
(* A handler's try block ends by returning a body or raising; its except   *)
(* clauses turn that into the response.  HTTPException is an Exception.    *)
(***************************************************************************)
Return(body, deps, emps) ==
    [kind |-> "return", exc |-> "", code |-> 200, body |-> body, deps |-> deps, emps |-> emps]

Raise(exc, code, deps, emps) ==
    [kind |-> "raise", exc |-> exc, code |-> code, body |-> <<>>, deps |-> deps, emps |-> emps]

\* The handler without its "except InvalidId" clause.
ExceptInvalidId_missing_clause(out) ==
    IF out.kind = "return" THEN [status |-> 200, body |-> out.body]
    ELSE [status |-> 500, body |-> <<>>]

\* except InvalidId: 400;  except Exception: 500
ExceptInvalidId(out) ==
    IF out.kind = "return" THEN [status |-> 200, body |-> out.body]
    ELSE IF out.exc = "InvalidId" THEN [status |-> 400, body |-> <<>>]
    ELSE [status |-> 500, body |-> <<>>]

\* except Exception: 500
ExceptException(out) ==
    IF out.kind = "return" THEN [status |-> 200, body |-> out.body]
    ELSE [status |-> 500, body |-> <<>>]

(***************************************************************************)
(* The request body model (app/models/Department.py, DepartmentCreate):    *)
(* every field optional, None by default; the instance remembers which     *)
(* fields the caller set.                                                  *)
(***************************************************************************)
DepartmentCreate(body) ==
    [fields_set |-> DOMAIN body,
     values |-> [f \in FieldNames |-> IF f \in DOMAIN body THEN body[f] ELSE None]]

\* model.model_dump(exclude_unset=...)
model_dump(model, exclude_unset) ==
    IF exclude_unset THEN [f \in model.fields_set |-> model.values[f]]
    ELSE model.values

(***************************************************************************)
(* The handlers.  Each yields the response and the collections it leaves.  *)
(***************************************************************************)
Response(r, out) == [status |-> r.status, body |-> r.body, deps |-> out.deps, emps |-> out.emps]

\* model_dump() in place of model_dump(exclude_unset=True).
create_department_dump_all(department, deps, emps, k) ==
    LET department_dict == model_dump(department, FALSE)
        inserted == insert_one(deps, GenOid(k), department_dict)
        created == find_one(inserted, GenOid(k))
        out == IF Len(created) > 0
               THEN Return(WithStrId(created[1]), inserted, emps)
               ELSE Raise("HTTPException", 500, inserted, emps)
    IN Response(ExceptException(out), out)

\* POST /departments/
create_department(department, deps, emps, k) ==
    LET department_dict == model_dump(department, TRUE)
        inserted == insert_one(deps, GenOid(k), department_dict)
        created == find_one(inserted, GenOid(k))
        out == IF Len(created) > 0
               THEN Return(WithStrId(created[1]), inserted, emps)
               ELSE Raise("HTTPException", 500, inserted, emps)
    IN Response(ExceptException(out), out)

\* GET /departments/
list_departments(skip, limit, deps, emps) ==
    LET total == count_documents(deps)
        departments == to_list(Limit(Skip(deps, skip), limit), limit)
        out == Return([total |-> total, skip |-> skip, limit |-> limit,
                       data |-> StrIds(departments)], deps, emps)
    IN Response(ExceptException(out), out)

\* GET /departments/count
count_departments(deps, emps) ==
    LET out == Return([count |-> count_documents(deps)], deps, emps)
    IN Response(ExceptException(out), out)

\* model_dump() in place of model_dump(exclude_unset=True).
update_department_dump_all(department_id, update_data, deps, emps) ==
    LET out ==
          IF ~IsValidOid(department_id) THEN Raise("InvalidId", 0, deps, emps)
          ELSE LET oid == ObjectId(department_id)
                   update == model_dump(update_data, FALSE)
                   result == update_one(deps, oid, update)
                   updated == find_one(result.coll, oid)
               IN IF result.matched_count = 0
                  THEN Raise("HTTPException", 404, result.coll, emps)
                  ELSE Return(WithStrId(updated[1]), result.coll, emps)
    IN Response(ExceptInvalidId(out), out)

\* PUT /departments/{department_id}
update_department(department_id, update_data, deps, emps) ==
    LET out ==
          IF ~IsValidOid(department_id) THEN Raise("InvalidId", 0, deps, emps)
          ELSE LET oid == ObjectId(department_id)
                   update == model_dump(update_data, TRUE)
                   result == update_one(deps, oid, update)
                   updated == find_one(result.coll, oid)
               IN IF result.matched_count = 0
                  THEN Raise("HTTPException", 404, result.coll, emps)
                  ELSE Return(WithStrId(updated[1]), result.coll, emps)
    IN Response(ExceptInvalidId(out), out)

\* The employees matched on str(oid) in place of the raw department_id.
delete_try_1_match_canonical(department_id, deps, emps) ==
    IF ~IsValidOid(department_id) THEN Raise("InvalidId", 0, deps, emps)
    ELSE LET result_update == update_many(emps, Str(ObjectId(department_id)))
         IN [kind |-> "await", exc |-> "", code |-> 0,
             body |-> [employees_updated |-> result_update.modified_count],
             deps |-> deps, emps |-> result_update.coll]

\* The identifier parsed after the employee update in place of before it.
delete_try_1_parse_late(department_id, deps, emps) ==
    LET result_update == update_many(emps, department_id)
    IN IF ~IsValidOid(department_id) THEN Raise("InvalidId", 0, deps, result_update.coll)
       ELSE [kind |-> "await", exc |-> "", code |-> 0,
             body |-> [employees_updated |-> result_update.modified_count],
             deps |-> deps, emps |-> result_update.coll]

\* DELETE /departments/{department_id}, up to the first store write: the
\* identifier is parsed, then the employees are updated.
delete_try_1(department_id, deps, emps) ==
    IF ~IsValidOid(department_id) THEN Raise("InvalidId", 0, deps, emps)
    ELSE LET result_update == update_many(emps, department_id)
         IN [kind |-> "await", exc |-> "", code |-> 0,
             body |-> [employees_updated |-> result_update.modified_count],
             deps |-> deps, emps |-> result_update.coll]

\* The deleted_count test left out.
delete_try_2_no_count_test(department_id, modified_count, deps, emps) ==
    LET oid == ObjectId(department_id)
        result_delete == delete_one(deps, oid)
    IN Return([employees_updated |-> modified_count], result_delete.coll, emps)

\* DELETE, from the second store write to the end of the try block.
delete_try_2(department_id, modified_count, deps, emps) ==
    LET oid == ObjectId(department_id)
        result_delete == delete_one(deps, oid)
    IN IF result_delete.deleted_count = 0
       THEN Raise("HTTPException", 404, result_delete.coll, emps)
       ELSE Return([employees_updated |-> modified_count], result_delete.coll, emps)

delete_department(department_id, deps, emps) ==
    LET s1 == delete_try_1(department_id, deps, emps)
        out == IF s1.kind = "raise" THEN s1
               ELSE delete_try_2(department_id, s1.body.employees_updated, s1.deps, s1.emps)
    IN Response(ExceptInvalidId(out), out)

\* GET /departments/{department_id}
get_department(department_id, deps, emps) ==
    LET out ==
          IF ~IsValidOid(department_id) THEN Raise("InvalidId", 0, deps, emps)
          ELSE LET department == find_one(deps, ObjectId(department_id))
               IN IF Len(department) = 0
                  THEN Raise("HTTPException", 404, deps, emps)
                  ELSE Return(WithStrId(department[1]), deps, emps)
    IN Response(ExceptInvalidId(out), out)

\* employee_collection.find({"department_id": dep_id})
EmployeesOf(emps, dep_id) ==
    LET Test(e) == "department_id" \in DOMAIN e /\ e["department_id"] = dep_id
    IN SelectSeq(emps, Test)

\* benefit_collection.find({"_id": {"$in": benefit_ids}})
FindIn(bens, benefit_ids) ==
    LET Test(b) == \E i \in 1..Len(benefit_ids) : benefit_ids[i] = b["_id"]
    IN SelectSeq(bens, Test)

\* One employee of the inner loop: the employee with its benefits embedded.
EnrichEmployee(emp, bens) ==
    LET raw == Get(emp, "benefits_id", <<>>)
        benefit_ids == [i \in 1..Len(raw) |-> ObjectId(raw[i])]
    IN ("benefits" :> StrIds(FindIn(bens, benefit_ids))) @@ WithStrId(emp)

\* The exception the loop body raises for one department, "" if none:
\* ObjectId(bid) raises InvalidId, dep["name"] raises KeyError.
FullInfoRaises(dep, emps) ==
    LET employees == EmployeesOf(emps, Str(dep["_id"]))
    IN IF \E i \in 1..Len(employees) :
            LET raw == Get(employees[i], "benefits_id", <<>>)
            IN \E j \in 1..Len(raw) : ~IsValidOid(raw[j])
       THEN "InvalidId"
       ELSE IF "name" \notin DOMAIN dep THEN "KeyError" ELSE ""

\* GET /departments/departments/full_info
get_departments_with_employees_and_benefits(deps, emps, bens) ==
    LET failing == {i \in 1..Len(deps) : FullInfoRaises(deps[i], emps) # ""}
        Entry(dep) ==
            LET dep_id == Str(dep["_id"])
                employees == EmployeesOf(emps, dep_id)
            IN [department_id |-> dep_id,
                department_name |-> dep["name"],
                location |-> Get(dep, "location", None),
                employees |-> [i \in 1..Len(employees) |-> EnrichEmployee(employees[i], bens)]]
        out == IF failing # {}
               THEN Raise(FullInfoRaises(deps[CHOOSE i \in failing : \A j \in failing : i <= j], emps),
                          0, deps, emps)
               ELSE Return([i \in 1..Len(deps) |-> Entry(deps[i])], deps, emps)
    IN Response(ExceptException(out), out)

(***************************************************************************)
(* Initial state: no department yet; the employee and benefit collections  *)
(* belong to other routers and are found as they are.                      *)
(***************************************************************************)
EmpOid(k) == [i \in 1..(OidLen \div 2) |-> IF i = OidLen \div 2 THEN k ELSE 238]
BenOid(k) == [i \in 1..(OidLen \div 2) |-> IF i = OidLen \div 2 THEN k ELSE 187]

Benefits == <<("_id" :> BenOid(1)), ("_id" :> BenOid(3))>>

\* Two benefit identifiers that resolve around one that matches no record.
BenefitsA == <<Str(BenOid(3)), Str(BenOid(2)), Str(BenOid(1))>>
\* One that resolves, written in upper case, and one that does not parse.
BenefitsB == <<ToUpper(Str(BenOid(1))), BadShort>>

\* The staff found at start: the first employee in the first department
\* (to be), under either spelling of its identifier; the second in it or in
\* none; the third holding a department_id that is no identifier at all.
Staff(d1, e2) ==
    << ("_id" :> EmpOid(1)) @@ [department_id |-> d1, benefits_id |-> BenefitsA],
       ("_id" :> EmpOid(2)) @@ e2,
       ("_id" :> EmpOid(3)) @@ [department_id |-> BadChar] >>

Employees ==
    { Staff(IdLower(1), [department_id |-> IdLower(1)]),
      Staff(IdLower(1), [department_id |-> IdLower(1), benefits_id |-> BenefitsB]),
      Staff(IdUpper(1), [department_id |-> None, benefits_id |-> BenefitsB]) }

NoRequest == [op |-> "none", id |-> <<>>, fields |-> Empty, skip |-> 0, limit |-> 0]
NoResponse == [status |-> 0, body |-> <<>>]

Init ==
    /\ department_collection = <<>>
    /\ employee_collection \in Employees
    /\ benefit_collection = Benefits
    /\ nextOid = 1
    /\ request = NoRequest
    /\ response = NoResponse
    /\ tasks = <<>>

(***************************************************************************)
(* One request at a time: each action is one handler run to its response.  *)
(***************************************************************************)
Serve(req, r) ==
    /\ request' = req
    /\ response' = [status |-> r.status, body |-> r.body]
    /\ department_collection' = r.deps
    /\ employee_collection' = r.emps
    /\ UNCHANGED <<benefit_collection, tasks>>

Create ==
    \E body \in CreateInputs :
        /\ nextOid <= MaxDeps
        /\ nextOid' = nextOid + 1
        /\ Serve([NoRequest EXCEPT !.op = "create", !.fields = body],
                 create_department(DepartmentCreate(body), department_collection,
                                   employee_collection, nextOid))

List ==
    \E skip \in 0..MaxPage, limit \in 0..MaxPage :
        /\ Serve([NoRequest EXCEPT !.op = "list", !.skip = skip, !.limit = limit],
                 list_departments(skip, limit, department_collection, employee_collection))
        /\ UNCHANGED nextOid

Count ==
    /\ Serve([NoRequest EXCEPT !.op = "count"],
             count_departments(department_collection, employee_collection))
    /\ UNCHANGED nextOid

Update ==
    \E id \in RequestIds, body \in UpdateInputs :
        /\ Serve([NoRequest EXCEPT !.op = "update", !.id = id, !.fields = body],
                 update_department(id, DepartmentCreate(body), department_collection,
                                   employee_collection))
        /\ UNCHANGED nextOid

Delete ==
    \E id \in RequestIds :
        /\ Serve([NoRequest EXCEPT !.op = "delete", !.id = id],
                 delete_department(id, department_collection, employee_collection))
        /\ UNCHANGED nextOid

GetOne ==
    \E id \in RequestIds :
        /\ Serve([NoRequest EXCEPT !.op = "get", !.id = id],
                 get_department(id, department_collection, employee_collection))
        /\ UNCHANGED nextOid

FullInfo ==
    /\ Serve([NoRequest EXCEPT !.op = "full_info"],
             get_departments_with_employees_and_benefits(
                 department_collection, employee_collection, benefit_collection))
    /\ UNCHANGED nextOid

Next == Create \/ List \/ Count \/ Update \/ Delete \/ GetOne \/ FullInfo

Spec == Init /\ [][Next]_vars

(***************************************************************************)
(* Creation over every field set: each subset of the four fields, and a    *)
(* field set explicitly to None.                                           *)
(***************************************************************************)
FieldValue == [name |-> HR, location |-> RJ, manager_id |-> M1, employee_ids |-> <<E1>>]

AllCreateInputs ==
    {[f \in S |-> FieldValue[f]] : S \in SUBSET FieldNames} \cup {[location |-> None]}

InitCreate ==
    /\ department_collection = <<>>
    /\ employee_collection = <<>>
    /\ benefit_collection = Benefits
    /\ nextOid = 1
    /\ request = NoRequest
    /\ response = NoResponse
    /\ tasks = <<>>

CreateAny ==
    \E body \in AllCreateInputs :
        /\ nextOid <= MaxDeps
        /\ nextOid' = nextOid + 1
        /\ Serve([NoRequest EXCEPT !.op = "create", !.fields = body],
                 create_department(DepartmentCreate(body), department_collection,
                                   employee_collection, nextOid))

NextCreate == CreateAny \/ GetOne \/ Delete

SpecCreate == InitCreate /\ [][NextCreate]_vars

(***************************************************************************)
(* Concurrent delete requests: each request is a task that suspends at     *)
(* each await, so another task's store operation can run between the       *)
(* employee update and the department removal.                             *)
(***************************************************************************)
Tasks == {1, 2}

IdleTask == [pc |-> "idle", id |-> <<>>, modified_count |-> 0, status |-> 0,
             employees_updated |-> 0, existed |-> FALSE]

Exists(deps, id) == IsValidOid(id) /\ Len(find_one(deps, ObjectId(id))) > 0

\* The collection after n departments were created.
Created(n) == [k \in 1..n |-> ("_id" :> GenOid(k)) @@ [name |-> HR]]

InitConc ==
    /\ \E n \in 1..MaxDeps : department_collection = Created(n)
    /\ employee_collection \in Employees
    /\ benefit_collection = Benefits
    /\ nextOid = MaxDeps + 1
    /\ request = NoRequest
    /\ response = NoResponse
    /\ tasks = [t \in Tasks |-> IdleTask]

\* The request arrives and runs to its first await (or to its response, if
\* the identifier does not parse).  existed records whether the department
\* was there when the request began.
DeleteStart(t) ==
    \E id \in RequestIds :
        LET s1 == delete_try_1(id, department_collection, employee_collection)
            r == ExceptInvalidId(s1)
        IN /\ tasks[t].pc = "idle"
           /\ employee_collection' = s1.emps
           /\ tasks' = [tasks EXCEPT ![t] =
                 IF s1.kind = "raise"
                 THEN [IdleTask EXCEPT !.pc = "done", !.id = id, !.status = r.status,
                                       !.existed = Exists(department_collection, id)]
                 ELSE [IdleTask EXCEPT !.pc = "await_delete", !.id = id,
                                       !.modified_count = s1.body.employees_updated,
                                       !.existed = Exists(department_collection, id)]]
           /\ UNCHANGED <<department_collection, benefit_collection, nextOid, request, response>>

\* The task resumes: the department removal, then the response.
DeleteFinish(t) ==
    LET out == delete_try_2(tasks[t].id, tasks[t].modified_count,
                            department_collection, employee_collection)
        r == ExceptInvalidId(out)
    IN /\ tasks[t].pc = "await_delete"
       /\ department_collection' = out.deps
       /\ tasks' = [tasks EXCEPT ![t].pc = "done", ![t].status = r.status,
                                 ![t].employees_updated =
                                     IF r.status = 200 THEN r.body.employees_updated ELSE 0]
       /\ UNCHANGED <<employee_collection, benefit_collection, nextOid, request, response>>

\* The response is sent; the task is free for the next request.
TaskReturn(t) ==
    /\ tasks[t].pc = "done"
    /\ tasks' = [tasks EXCEPT ![t] = IdleTask]
    /\ UNCHANGED <<department_collection, employee_collection, benefit_collection,
                   nextOid, request, response>>

NextConc == \E t \in Tasks : DeleteStart(t) \/ DeleteFinish(t) \/ TaskReturn(t)

SpecConc == InitConc /\ [][NextConc]_vars

(***************************************************************************)
(* Properties.  A property of one request relates the state before the     *)
(* handler ran (unprimed) to the state it left (primed); request' is the   *)
(* request the step served.                                                *)
(***************************************************************************)
\* Positions of the employees whose department_id is exactly the string id.
Referencing(emps, id) ==
    {i \in 1..Len(emps) : "department_id" \in DOMAIN emps[i] /\ emps[i]["department_id"] = id}

\* Positions of the departments whose identifier is oid.
Holding(deps, oid) == {i \in 1..Len(deps) : deps[i]["_id"] = oid}

\* The record a handler returns for a stored document: the same keys and
\* values, the identifier in its string form.
Returned(body, doc) ==
    /\ DOMAIN body = DOMAIN doc
    /\ body["_id"] = Str(doc["_id"])
    /\ \A f \in DOMAIN doc \ {"_id"} : body[f] = doc[f]

\* C1: a delete of an existing department, by an identifier string that is
\* the department_id of exactly N employees, succeeds, reports
\* employees_updated = N, leaves those N employees with department_id null
\* and leaves no department with that identifier.
C1_DeleteClearsReferences ==
    [][ (/\ request'.op = "delete"
         /\ Exists(department_collection, request'.id))
        => LET id == request'.id
               refs == Referencing(employee_collection, id)
           IN /\ response'.status = 200
              /\ response'.body.employees_updated = Cardinality(refs)
              /\ Len(employee_collection') = Len(employee_collection)
              /\ \A i \in refs : employee_collection'[i]["department_id"] = None
              /\ Holding(department_collection', ObjectId(id)) = {}
      ]_vars

\* A delete that succeeded and cleared two employees.
C1_Witness ==
    /\ request.op = "delete"
    /\ response.status = 200
    /\ response.body.employees_updated = 2
    /\ Cardinality(Referencing(employee_collection, None)) >= 2

\* C2: a delete by a well-formed identifier that matches no department
\* answers 404, and the employees step 1 cleared stay cleared.
C2_DeleteMissingIs404 ==
    [][ (/\ request'.op = "delete"
         /\ IsValidOid(request'.id)
         /\ ~Exists(department_collection, request'.id))
        => /\ response'.status = 404
           /\ \A i \in Referencing(employee_collection, request'.id) :
                  employee_collection'[i]["department_id"] = None
      ]_vars

\* C3: update, get and delete by an identifier that does not parse answer
\* 400, whatever the collections and the fields hold.
C3_InvalidIdIs400 ==
    (request.op \in {"update", "get", "delete"} /\ ~IsValidOid(request.id))
        => response.status = 400

\* An update carrying a field, by an identifier one character short.
C3_Witness ==
    /\ request.op = "update"
    /\ request.id = BadShort
    /\ request.fields = [location |-> SP]
    /\ response.status = 400
    /\ Len(department_collection) > 0

\* C4: get and update by a well-formed identifier that matches no department
\* answer 404 and leave the department collection as it was.
C4_MissingIs404 ==
    [][ (/\ request'.op \in {"get", "update"}
         /\ IsValidOid(request'.id)
         /\ ~Exists(department_collection, request'.id))
        => /\ response'.status = 404
           /\ department_collection' = department_collection
      ]_vars

\* C5: a successful update is a merge: the supplied fields hold the supplied
\* values, the other fields and the identifier of that department are as
\* before, every other department is as before, and the record returned is
\* the record stored.
C5_UpdateMerges ==
    [][ (request'.op = "update" /\ response'.status = 200)
        => LET hit == Holding(department_collection, ObjectId(request'.id))
               fields == request'.fields
           IN /\ Cardinality(hit) = 1
              /\ Len(department_collection') = Len(department_collection)
              /\ \A i \in 1..Len(department_collection) :
                    LET old == department_collection[i]
                        new == department_collection'[i]
                    IN IF i \in hit
                       THEN /\ new["_id"] = old["_id"]
                            /\ \A f \in DOMAIN fields : f \in DOMAIN new /\ new[f] = fields[f]
                            /\ \A f \in FieldNames \ DOMAIN fields :
                                  /\ f \in DOMAIN new <=> f \in DOMAIN old
                                  /\ f \in DOMAIN old => new[f] = old[f]
                            /\ DOMAIN new \subseteq FieldNames \cup {"_id"}
                            /\ Returned(response'.body, new)
                       ELSE new = old
      ]_vars

\* An update of location alone on a department that holds all four fields.
C5_Witness ==
    /\ request.op = "update"
    /\ request.fields = [location |-> SP]
    /\ response.status = 200
    /\ DOMAIN response.body = FieldNames \cup {"_id"}
    /\ response.body["name"] = HR
    /\ response.body["location"] = SP

\* C6: a get of the identifier a create just returned answers a record with
\* exactly the supplied fields and values and an identifier that is not
\* empty and is the identifier of no other department.
C6_CreateThenGet ==
    [][ (/\ request.op = "create"
         /\ response.status = 200
         /\ request'.op = "get"
         /\ request'.id = response.body["_id"])
        => /\ response'.status = 200
           /\ DOMAIN response'.body = DOMAIN request.fields \cup {"_id"}
           /\ \A f \in DOMAIN request.fields : response'.body[f] = request.fields[f]
           /\ Len(response'.body["_id"]) > 0
           /\ response'.body["_id"] = response.body["_id"]
           /\ Cardinality({i \in 1..Len(department_collection') :
                  Str(department_collection'[i]["_id"]) = response'.body["_id"]}) = 1
      ]_vars

\* A get of the second department, created with two of the fields, beside
\* the first.
C6_Witness ==
    /\ request.op = "get"
    /\ request.id = IdLower(2)
    /\ response.status = 200
    /\ DOMAIN response.body = {"_id", "manager_id", "employee_ids"}
    /\ response.body["manager_id"] = M1
    /\ Len(department_collection) = 2

\* C7: list answers the number of all departments as total (the number
\* count answers), echoes skip and limit, and holds as data the records at
\* offsets skip .. skip+limit-1 of the collection, at most limit of them.
C7_ListPage ==
    /\ request.op = "list" =>
          LET n == Len(department_collection)
              rest == IF n > request.skip THEN n - request.skip ELSE 0
              size == IF request.limit < rest THEN request.limit ELSE rest
          IN /\ response.status = 200
             /\ response.body.total = n
             /\ response.body.skip = request.skip
             /\ response.body.limit = request.limit
             /\ Len(response.body.data) = size
             /\ Len(response.body.data) <= request.limit
             /\ \A i \in 1..size :
                   Returned(response.body.data[i], department_collection[request.skip + i])
    /\ request.op = "count" =>
          /\ response.status = 200
          /\ response.body.count = Len(department_collection)

\* A page of one record out of two.
C7_Witness ==
    /\ request.op = "list"
    /\ request.skip = 0
    /\ request.limit = 1
    /\ response.body.total = 2
    /\ Len(response.body.data) = 1

\* The benefits the claim embeds for an employee: the benefit records whose
\* identifier appears in benefits_id; an entry that does not parse or that
\* matches no record is discarded.
Resolved(emp, bens) ==
    LET raw == Get(emp, "benefits_id", <<>>)
        Test(b) == \E j \in 1..Len(raw) : IsValidOid(raw[j]) /\ ObjectId(raw[j]) = b["_id"]
    IN SelectSeq(bens, Test)

\* C8: full_info succeeds with one entry per department, each listing
\* exactly the employees whose department_id is the department's identifier
\* string, each employee with exactly its resolved benefits.  (Stated for the
\* collections in which every department holds a name.)
C8_FullInfoDiscards ==
    (/\ request.op = "full_info"
     /\ \A i \in 1..Len(department_collection) : "name" \in DOMAIN department_collection[i])
    => /\ response.status = 200
       /\ Len(response.body) = Len(department_collection)
       /\ \A i \in 1..Len(department_collection) :
             LET dep == department_collection[i]
                 entry == response.body[i]
                 members == EmployeesOf(employee_collection, Str(dep["_id"]))
             IN /\ entry.department_id = Str(dep["_id"])
                /\ Len(entry.employees) = Len(members)
                /\ \A k \in 1..Len(members) :
                      /\ entry.employees[k]["_id"] = Str(members[k]["_id"])
                      /\ Len(entry.employees[k]["benefits"]) = Len(Resolved(members[k], benefit_collection))
                      /\ \A b \in 1..Len(entry.employees[k]["benefits"]) :
                            Returned(entry.employees[k]["benefits"][b],
                                     Resolved(members[k], benefit_collection)[b])

\* C9: of two delete requests for the same department, both begun while it
\* existed, exactly one succeeds; once both have answered the department is
\* gone and no employee's department_id is that identifier string.
C9_OneDeleteWins ==
    (/\ tasks[1].pc = "done" /\ tasks[2].pc = "done"
     /\ tasks[1].id = tasks[2].id
     /\ tasks[1].existed /\ tasks[2].existed)
    => /\ Cardinality({t \in Tasks : tasks[t].status = 200}) = 1
       /\ ~Exists(department_collection, tasks[1].id)
       /\ Referencing(employee_collection, tasks[1].id) = {}

\* Both deletes of the first department have answered; the second task won.
C9_Witness ==
    /\ tasks[1].pc = "done" /\ tasks[2].pc = "done"
    /\ tasks[1].id = IdLower(1) /\ tasks[2].id = IdLower(1)
    /\ tasks[1].existed /\ tasks[2].existed
    /\ tasks[2].status = 200
    /\ tasks[1].status # 200

\* C10: a delete by an identifier that does not parse answers 400 and
\* writes nothing: both collections are as before.
C10_InvalidDeleteWritesNothing ==
    [][ (request'.op = "delete" /\ ~IsValidOid(request'.id))
        => /\ response'.status = 400
           /\ employee_collection' = employee_collection
           /\ department_collection' = department_collection
      ]_vars

\* A rejected delete by a string that is some employee's department_id.
C10_Witness ==
    /\ request.op = "delete"
    /\ request.id = BadChar
    /\ response.status = 400
    /\ Referencing(employee_collection, BadChar) # {}

====
